---- MODULE Spec2Model ----
(***************************************************************************)
(* Piece-table text buffer (buffer.c) and modal editor state (main.c) of   *)
(* the mix editor core.  Positions, lengths and columns are byte offsets,  *)
(* 0-based as in the C source; TLA+ sequences are 1-based, so the byte at  *)
(* offset i of a storage s is s[i + 1].                                    *)
(***************************************************************************)
EXTENDS Integers, Sequences, FiniteSets, TLC

\* ------------------------------------------------------------------------
\* Bounds of the model
\* ------------------------------------------------------------------------

\* Width of size_t in bits (the build is wasm32; the model keeps the wrap
\* around but on a narrow word so that a loop up to SIZE_MAX is finite).
SIZE_BITS == 4

\* buffer.c:8-10 scaled down so that capacity growth happens on short texts.
INITIAL_ADD_CAPACITY == 2
INITIAL_PIECE_CAPACITY == 3
INITIAL_LINE_CAPACITY == 1

\* Most bytes ever appended to add storage, in Spec and in SpecEd.
MaxAdd == 2
MaxEdAdd == 1

SizeMod == 2 ^ SIZE_BITS
SIZE_MAX == SizeMod - 1

\* size_t arithmetic
SzAdd(a, b) == (a + b) % SizeMod
SzSub(a, b) == (a - b + SizeMod) % SizeMod

\* ------------------------------------------------------------------------
\* Bytes and strings
\* ------------------------------------------------------------------------
NL == "\n"
SP == " "
TAB == "\t"
\* The byte '\0' (buffer_char_at's out-of-range sentinel)
NUL == "nul"

\* A null char* (distinct from every byte string of the model).
NullText == <<"NULL">>
\* A null Buffer pointer; a live buffer is <<record>>.
NULL == <<>>

\* s[a .. b) with 0-based offsets
Slice(s, a, b) == SubSeq(s, a + 1, b)

RECURSIVE CountNL(_)
CountNL(s) == IF s = <<>> THEN 0 ELSE (IF Head(s) = NL THEN 1 ELSE 0) + CountNL(Tail(s))

\* ------------------------------------------------------------------------
\* buffer.c
\* ------------------------------------------------------------------------
SOURCE_ORIGINAL == "ORIGINAL"
SOURCE_ADD == "ADD"

Piece(src, st, len) == [source |-> src, start |-> st, length |-> len]

piece_count(b) == Len(b.pieces)
add_length(b) == Len(b.add_buffer)

Storage(b, piece) == IF piece.source = SOURCE_ORIGINAL THEN b.original ELSE b.add_buffer

RECURSIVE GrowTo(_, _)
GrowTo(cap, needed) == IF cap < needed THEN GrowTo(cap * 2, needed) ELSE cap

\* oom: the realloc of this call fails
ensure_add_capacity(b, additional, oom) ==
    LET needed == add_length(b) + additional
    IN IF needed <= b.add_capacity THEN [ok |-> TRUE, buf |-> b]
       ELSE IF oom THEN [ok |-> FALSE, buf |-> b]
       ELSE [ok |-> TRUE,
             buf |-> [b EXCEPT !.add_capacity = GrowTo(b.add_capacity * 2, needed)]]

\* (mutant) the result of realloc is stored without the NULL check
ensure_piece_capacity_unchecked(b, oom) ==
    IF piece_count(b) < b.piece_capacity THEN [ok |-> TRUE, buf |-> b]
    ELSE [ok |-> TRUE, buf |-> [b EXCEPT !.piece_capacity = b.piece_capacity * 2]]

ensure_piece_capacity(b, oom) ==
    IF piece_count(b) < b.piece_capacity THEN [ok |-> TRUE, buf |-> b]
    ELSE IF oom THEN [ok |-> FALSE, buf |-> b]
    ELSE [ok |-> TRUE, buf |-> [b EXCEPT !.piece_capacity = b.piece_capacity * 2]]

RECURSIVE find_piece_walk(_, _, _, _)
find_piece_walk(b, position, i, current_pos) ==
    IF i < piece_count(b)
    THEN IF position < current_pos + b.pieces[i + 1].length
         THEN [found |-> TRUE, piece_index |-> i, offset |-> position - current_pos]
         ELSE find_piece_walk(b, position, i + 1, current_pos + b.pieces[i + 1].length)
    ELSE IF position = b.total_length
         THEN [found |-> TRUE, piece_index |-> piece_count(b), offset |-> 0]
         ELSE [found |-> FALSE, piece_index |-> 0, offset |-> 0]

find_piece_at(b, position) == find_piece_walk(b, position, 0, 0)

RECURSIVE get_text_walk(_, _, _, _, _, _)
get_text_walk(b, start, length, i, current_pos, result) ==
    IF i < piece_count(b) /\ Len(result) < length
    THEN LET piece == b.pieces[i + 1]
             piece_end == current_pos + piece.length
         IN IF piece_end > start
            THEN LET copy_start == IF start > current_pos THEN start - current_pos ELSE 0
                     copy_end == IF start + length < piece_end
                                 THEN start + length - current_pos
                                 ELSE piece.length
                     chunk == Slice(Storage(b, piece), piece.start + copy_start,
                                    piece.start + copy_end)
                 IN get_text_walk(b, start, length, i + 1, piece_end, result \o chunk)
            ELSE get_text_walk(b, start, length, i + 1, piece_end, result)
    ELSE result

buffer_get_text(b, start, length) ==
    IF SzAdd(start, length) > b.total_length THEN NullText
    ELSE get_text_walk(b, start, length, 0, 0, <<>>)

buffer_get_all(b) == buffer_get_text(b, 0, b.total_length)

buffer_length(g) == IF g = NULL THEN 0 ELSE g[1].total_length

buffer_create(initial_content) ==
    LET empty == [original |-> <<>>, add_buffer |-> <<>>,
                  add_capacity |-> INITIAL_ADD_CAPACITY,
                  pieces |-> <<>>, piece_capacity |-> INITIAL_PIECE_CAPACITY,
                  total_length |-> 0,
                  line_starts |-> <<>>, line_alloc |-> 0, line_count |-> 0,
                  lines_dirty |-> TRUE]
    IN IF initial_content # NullText /\ Len(initial_content) > 0
       THEN [empty EXCEPT !.original = initial_content,
                          !.pieces = <<Piece(SOURCE_ORIGINAL, 0, Len(initial_content))>>,
                          !.total_length = Len(initial_content)]
       ELSE empty

\* The offsets written by the second loop of rebuild_line_cache, after entry 0.
RECURSIVE line_index_walk(_, _, _, _)
line_index_walk(text, total_length, i, starts) ==
    IF i < total_length
    THEN IF text[i + 1] = NL /\ i + 1 <= total_length
         THEN line_index_walk(text, total_length, i + 1, Append(starts, i + 1))
         ELSE line_index_walk(text, total_length, i + 1, starts)
    ELSE starts

\* (mutant) the new capacity forgets the line count
rebuild_line_cache_fixed_capacity(b) ==
    IF ~b.lines_dirty THEN b
    ELSE LET text == buffer_get_all(b)
             line_count == 1 + CountNL(text)
             realloc == line_count > b.line_count \/ b.line_alloc = 0
         IN [b EXCEPT !.line_alloc = IF realloc THEN INITIAL_LINE_CAPACITY ELSE @,
                      !.line_starts = line_index_walk(text, b.total_length, 0, <<0>>),
                      !.line_count = line_count,
                      !.lines_dirty = FALSE]

rebuild_line_cache(b) ==
    IF ~b.lines_dirty THEN b
    ELSE LET text == buffer_get_all(b)
             line_count == 1 + CountNL(text)
             realloc == line_count > b.line_count \/ b.line_alloc = 0
         IN [b EXCEPT !.line_alloc = IF realloc THEN line_count + INITIAL_LINE_CAPACITY ELSE @,
                      !.line_starts = line_index_walk(text, b.total_length, 0, <<0>>),
                      !.line_count = line_count,
                      !.lines_dirty = FALSE]

\* Tail of buffer_insert and buffer_delete: total_length and the dirty flag.
finish_insert(b, length) ==
    [b EXCEPT !.total_length = @ + length, !.lines_dirty = TRUE]

\* (mutant) the delete leaves the line cache marked clean
finish_delete_keep_clean(b, length) ==
    [b EXCEPT !.total_length = SzSub(@, length)]

finish_delete(b, length) ==
    [b EXCEPT !.total_length = SzSub(@, length), !.lines_dirty = TRUE]

\* The growth loop of the split path: `while (piece_count + 2 > piece_capacity)`.
\* An iteration that leaves the buffer as it found it is repeated for ever.
RECURSIVE split_grow(_, _)
split_grow(b, oom) ==
    IF piece_count(b) + 2 > b.piece_capacity
    THEN LET e == ensure_piece_capacity(b, oom)
         IN IF ~e.ok THEN [ok |-> FALSE, hang |-> FALSE, buf |-> b]
            ELSE IF e.buf = b THEN [ok |-> FALSE, hang |-> TRUE, buf |-> b]
            ELSE split_grow(e.buf, oom)
    ELSE [ok |-> TRUE, hang |-> FALSE, buf |-> b]

insert_at_end(b, new_piece) ==
    [b EXCEPT !.pieces = Append(@, new_piece)]

insert_before_piece(b, piece_idx, new_piece) ==
    [b EXCEPT !.pieces = SubSeq(@, 1, piece_idx) \o <<new_piece>>
                         \o SubSeq(@, piece_idx + 1, Len(@))]

insert_split_piece(b, piece_idx, offset, new_piece) ==
    LET old == b.pieces[piece_idx + 1]
        left == Piece(old.source, old.start, offset)
        right == Piece(old.source, old.start + offset, old.length - offset)
    IN [b EXCEPT !.pieces = SubSeq(@, 1, piece_idx) \o <<left, new_piece, right>>
                            \o SubSeq(@, piece_idx + 2, Len(@))]

\* (mutant) the memcpy starts at add_buffer instead of add_buffer + add_length
append_add_from_start(b, text) ==
    [b EXCEPT !.add_buffer =
        [i \in 1 .. Len(@) + Len(text) |->
            IF i <= Len(text) THEN text[i] ELSE IF i <= Len(@) THEN @[i] ELSE NUL]]

\* memcpy(add_buffer + add_length, text, length); add_length += length
append_add(b, text) ==
    [b EXCEPT !.add_buffer = @ \o text]

\* oom is "none", "add" (the add-storage realloc fails) or "pieces" (the
\* piece-array realloc fails).  hang: the call never returns.
InsertResult(r, h, b) == [ret |-> r, hang |-> h, buf |-> b]

buffer_insert(b, position, text, oom) ==
    IF text = NullText \/ Len(text) = 0 THEN InsertResult(FALSE, FALSE, b)
    ELSE IF position > b.total_length THEN InsertResult(FALSE, FALSE, b)
    ELSE
    LET length == Len(text)
        ea == ensure_add_capacity(b, length, oom = "add")
    IN IF ~ea.ok THEN InsertResult(FALSE, FALSE, b)
       ELSE
       LET add_start == add_length(ea.buf)
           b1 == append_add(ea.buf, text)
           f == find_piece_at(b1, position)
           new_piece == Piece(SOURCE_ADD, add_start, length)
       IN IF ~f.found THEN InsertResult(FALSE, FALSE, b1)
          ELSE IF f.piece_index = piece_count(b1)
          THEN LET e == ensure_piece_capacity(b1, oom = "pieces")
               IN IF ~e.ok THEN InsertResult(FALSE, FALSE, b1)
                  ELSE InsertResult(TRUE, FALSE,
                                    finish_insert(insert_at_end(e.buf, new_piece), length))
          ELSE IF f.offset = 0
          THEN LET e == ensure_piece_capacity(b1, oom = "pieces")
               IN IF ~e.ok THEN InsertResult(FALSE, FALSE, b1)
                  ELSE InsertResult(TRUE, FALSE,
                                    finish_insert(
                                      insert_before_piece(e.buf, f.piece_index, new_piece),
                                      length))
          ELSE LET g == split_grow(b1, oom = "pieces")
               IN IF g.hang THEN InsertResult(FALSE, TRUE, g.buf)
                  ELSE IF ~g.ok THEN InsertResult(FALSE, FALSE, g.buf)
                  ELSE InsertResult(TRUE, FALSE,
                                    finish_insert(
                                      insert_split_piece(g.buf, f.piece_index, f.offset,
                                                         new_piece),
                                      length))

\* (mutant) the sweep forgotten: emptied pieces stay in the table
keep_empty_pieces(pieces) == pieces

\* The sweep that ends the multi-piece delete.
remove_empty_pieces(pieces) == SelectSeq(pieces, LAMBDA p : p.length # 0)

\* start_piece = end_piece
delete_within_piece(b, start_piece, start_offset, end_offset, length, oom) ==
    LET piece == b.pieces[start_piece + 1]
    IN IF start_offset = 0 /\ end_offset = piece.length
       THEN [ok |-> TRUE,
             buf |-> [b EXCEPT !.pieces = SubSeq(@, 1, start_piece)
                                          \o SubSeq(@, start_piece + 2, Len(@))]]
       ELSE IF start_offset = 0
       THEN [ok |-> TRUE,
             buf |-> [b EXCEPT !.pieces[start_piece + 1].start = SzAdd(@, length),
                               !.pieces[start_piece + 1].length = SzSub(@, length)]]
       ELSE IF end_offset = piece.length
       THEN [ok |-> TRUE, buf |-> [b EXCEPT !.pieces[start_piece + 1].length = start_offset]]
       ELSE LET e == ensure_piece_capacity(b, oom = "pieces")
                right == Piece(piece.source, SzAdd(piece.start, end_offset),
                               SzSub(piece.length, end_offset))
            IN IF ~e.ok THEN [ok |-> FALSE, buf |-> b]
               ELSE [ok |-> TRUE,
                     buf |-> [e.buf EXCEPT
                                !.pieces = SubSeq(@, 1, start_piece)
                                           \o <<[piece EXCEPT !.length = start_offset], right>>
                                           \o SubSeq(@, start_piece + 2, Len(@))]]

\* pieces[start_piece] of the multi-piece delete.  When position + length
\* wrapped, start_piece can be piece_count: the slot after the last piece,
\* whose length the code sets to start_offset = 0.
with_start_slot(pieces, start_piece) ==
    IF start_piece < Len(pieces) THEN pieces ELSE Append(pieces, Piece(SOURCE_ADD, 0, 0))

\* (mutant) the last piece is shortened but its start is not advanced
delete_multi_piece_no_advance(b, start_piece, start_offset, end_piece, end_offset) ==
    LET p1 == [with_start_slot(b.pieces, start_piece)
                 EXCEPT ![start_piece + 1].length = start_offset]
        p2 == IF end_piece < piece_count(b)
              THEN [p1 EXCEPT ![end_piece + 1].length = SzSub(@, end_offset)]
              ELSE p1
        remove_count == SzSub(SzSub(end_piece, start_piece), 1)
        p3 == IF remove_count > 0
              THEN SubSeq(p2, 1, start_piece + 1) \o SubSeq(p2, end_piece + 1, piece_count(b))
              ELSE p2
    IN [b EXCEPT !.pieces = remove_empty_pieces(p3)]

\* start_piece # end_piece.  The memmove copies pieces[end_piece ..
\* piece_count) to pieces[start_piece + 1 ..], and piece_count -= remove_count
\* in size_t leaves start_piece + 1 + piece_count - end_piece pieces.
delete_multi_piece(b, start_piece, start_offset, end_piece, end_offset) ==
    LET p1 == [with_start_slot(b.pieces, start_piece)
                 EXCEPT ![start_piece + 1].length = start_offset]
        p2 == IF end_piece < piece_count(b)
              THEN [p1 EXCEPT ![end_piece + 1].start = SzAdd(@, end_offset),
                              ![end_piece + 1].length = SzSub(@, end_offset)]
              ELSE p1
        remove_count == SzSub(SzSub(end_piece, start_piece), 1)
        p3 == IF remove_count > 0
              THEN SubSeq(p2, 1, start_piece + 1) \o SubSeq(p2, end_piece + 1, piece_count(b))
              ELSE p2
    IN [b EXCEPT !.pieces = remove_empty_pieces(p3)]

\* The multi-piece delete writes a piece slot at or past piece_capacity
\* (possible only when position + length wrapped, so that end_piece <
\* start_piece): undefined behaviour.
delete_out_of_bounds(b, start_piece, end_piece) ==
    \/ start_piece >= b.piece_capacity
    \/ /\ SzSub(SzSub(end_piece, start_piece), 1) > 0
       /\ start_piece + 1 + piece_count(b) - end_piece > b.piece_capacity

\* ub: the call wrote outside the piece array.
DeleteResult(r, u, b) == [ret |-> r, ub |-> u, buf |-> b]

buffer_delete(b, position, length, oom) ==
    IF length = 0 THEN DeleteResult(FALSE, FALSE, b)
    ELSE IF SzAdd(position, length) > b.total_length THEN DeleteResult(FALSE, FALSE, b)
    ELSE
    LET s == find_piece_at(b, position)
        e == find_piece_at(b, SzAdd(position, length))
    IN IF ~s.found \/ ~e.found THEN DeleteResult(FALSE, FALSE, b)
       ELSE IF s.piece_index = e.piece_index
       THEN LET d == delete_within_piece(b, s.piece_index, s.offset, e.offset, length, oom)
            IN IF ~d.ok THEN DeleteResult(FALSE, FALSE, b)
               ELSE DeleteResult(TRUE, FALSE, finish_delete(d.buf, length))
       ELSE DeleteResult(TRUE,
                         delete_out_of_bounds(b, s.piece_index, e.piece_index),
                         finish_delete(
                           delete_multi_piece(b, s.piece_index, s.offset,
                                              e.piece_index, e.offset),
                           length))

\* The realloc that returns NULL during the call: "add" if oom = "add" and
\* ensure_add_capacity has to grow, "pieces" if oom = "pieces" and
\* ensure_piece_capacity has to grow, else "none".
insert_failed_alloc(b, position, text, oom) ==
    IF text = NullText \/ Len(text) = 0 \/ position > b.total_length THEN "none"
    ELSE IF oom = "add" /\ add_length(b) + Len(text) > b.add_capacity THEN "add"
    ELSE IF oom = "pieces" /\ piece_count(b) >= b.piece_capacity THEN "pieces"
    ELSE "none"

delete_failed_alloc(b, position, length, oom) ==
    IF length = 0 \/ SzAdd(position, length) > b.total_length THEN "none"
    ELSE LET s == find_piece_at(b, position)
             e == find_piece_at(b, SzAdd(position, length))
         IN IF /\ oom = "pieces"
               /\ s.found /\ e.found /\ s.piece_index = e.piece_index
               /\ s.offset # 0 /\ e.offset # b.pieces[s.piece_index + 1].length
               /\ piece_count(b) >= b.piece_capacity
            THEN "pieces"
            ELSE "none"

\* (long)i of a size_t i
ToLong(i) == IF i >= SizeMod \div 2 THEN i - SizeMod ELSE i

\* (mutant) a match that ends at the end of the document is not looked at
RECURSIVE find_next_walk_short(_, _, _, _)
find_next_walk_short(text, total_length, i, needle) ==
    IF SzAdd(i, Len(needle)) < total_length
    THEN IF i + Len(needle) <= total_length
         THEN IF Slice(text, i, i + Len(needle)) = needle THEN {ToLong(i)}
              ELSE find_next_walk_short(text, total_length, SzAdd(i, 1), needle)
         ELSE {ToLong(i)} \cup find_next_walk_short(text, total_length, SzAdd(i, 1), needle)
    ELSE {-1}

\* The loop of buffer_find_next from index i: the set of values it can
\* return.  When i + needle_len wraps, strncmp reads before the copy of the
\* text: those bytes may or may not match.
RECURSIVE find_next_walk(_, _, _, _)
find_next_walk(text, total_length, i, needle) ==
    IF SzAdd(i, Len(needle)) <= total_length
    THEN IF i + Len(needle) <= total_length
         THEN IF Slice(text, i, i + Len(needle)) = needle THEN {ToLong(i)}
              ELSE find_next_walk(text, total_length, SzAdd(i, 1), needle)
         ELSE {ToLong(i)} \cup find_next_walk(text, total_length, SzAdd(i, 1), needle)
    ELSE {-1}

buffer_find_next(b, start, needle) ==
    IF needle = NullText \/ Len(needle) = 0 THEN {-1}
    ELSE find_next_walk(buffer_get_all(b), b.total_length, start, needle)

\* The loop of buffer_find_prev from index i down to 0: the set of values it
\* can return.  The copy of the text holds total_length bytes and a '\0'; an
\* index past the '\0' is read outside the copy and may or may not match.
RECURSIVE find_prev_walk(_, _, _, _)
find_prev_walk(text, total_length, i, needle) ==
    LET below == IF i = 0 THEN {-1}
                 ELSE find_prev_walk(text, total_length, i - 1, needle)
    IN IF i > total_length THEN {ToLong(i)} \cup below
       ELSE IF i + Len(needle) <= total_length /\ Slice(text, i, i + Len(needle)) = needle
       THEN {ToLong(i)}
       ELSE below

buffer_find_prev(b, start, needle) ==
    IF needle = NullText \/ Len(needle) = 0 \/ start < Len(needle) THEN {-1}
    ELSE find_prev_walk(buffer_get_all(b), b.total_length, start - Len(needle), needle)

\* (mutant) the delete is kept only once the insert has succeeded
buffer_replace_checked(b, position, old_length, new_text, new_length, oom) ==
    LET d == buffer_delete(b, position, old_length, oom)
        text == IF new_text = NullText THEN NullText ELSE Slice(new_text, 0, new_length)
        i == buffer_insert(d.buf, position, text, oom)
    IN IF ~d.ret THEN InsertResult(FALSE, FALSE, d.buf)
       ELSE IF new_length > 0
       THEN IF i.ret THEN i ELSE InsertResult(FALSE, FALSE, b)
       ELSE InsertResult(TRUE, FALSE, d.buf)

\* new_text[0 .. new_length) is what buffer_insert reads.
buffer_replace(b, position, old_length, new_text, new_length, oom) ==
    LET d == buffer_delete(b, position, old_length, oom)
        text == IF new_text = NullText THEN NullText ELSE Slice(new_text, 0, new_length)
        i == buffer_insert(d.buf, position, text, oom)
    IN IF ~d.ret THEN InsertResult(FALSE, FALSE, d.buf)
       ELSE IF new_length > 0
       THEN IF i.ret THEN i ELSE InsertResult(FALSE, i.hang, i.buf)
       ELSE InsertResult(TRUE, FALSE, d.buf)

buffer_char_at(b, position) ==
    IF position >= b.total_length THEN NUL
    ELSE LET f == find_piece_at(b, position)
         IN IF ~f.found THEN NUL
            ELSE Storage(b, b.pieces[f.piece_index + 1])[b.pieces[f.piece_index + 1].start
                                                          + f.offset + 1]

\* The line queries rebuild the cache first; each is given here on the
\* buffer it leaves behind, rb = rebuild_line_cache(b).
buffer_line_start(rb, line_number) ==
    IF line_number >= rb.line_count THEN rb.total_length
    ELSE rb.line_starts[line_number + 1]

\* (mutant) the length stops before the byte that precedes the next line start
buffer_line_length_no_newline(rb, line_number) ==
    IF line_number >= rb.line_count THEN 0
    ELSE LET start == rb.line_starts[line_number + 1]
             end == IF line_number + 1 < rb.line_count
                    THEN rb.line_starts[line_number + 2] - 1
                    ELSE rb.total_length
         IN SzSub(end, start)

buffer_line_length(rb, line_number) ==
    IF line_number >= rb.line_count THEN 0
    ELSE LET start == rb.line_starts[line_number + 1]
             end == IF line_number + 1 < rb.line_count
                    THEN rb.line_starts[line_number + 2]
                    ELSE rb.total_length
         IN SzSub(end, start)

\* (mutant) the trailing newline is returned with the line
buffer_get_line_with_newline(rb, line_number) ==
    IF line_number >= rb.line_count THEN NullText
    ELSE LET start == rb.line_starts[line_number + 1]
             end == IF line_number + 1 < rb.line_count
                    THEN rb.line_starts[line_number + 2]
                    ELSE rb.total_length
         IN buffer_get_text(rb, start, SzSub(end, start))

buffer_get_line(rb, line_number) ==
    IF line_number >= rb.line_count THEN NullText
    ELSE LET start == rb.line_starts[line_number + 1]
             end == IF line_number + 1 < rb.line_count
                    THEN rb.line_starts[line_number + 2]
                    ELSE rb.total_length
             length == SzSub(end, start)
         IN IF length > 0 /\ buffer_char_at(rb, SzSub(end, 1)) = NL
            THEN buffer_get_text(rb, start, length - 1)
            ELSE buffer_get_text(rb, start, length)

RECURSIVE pos_to_line_col_walk(_, _, _, _, _)
pos_to_line_col_walk(rb, position, i, line, col) ==
    IF i < rb.line_count
    THEN IF i + 1 < rb.line_count /\ rb.line_starts[i + 2] <= position
         THEN pos_to_line_col_walk(rb, position, i + 1, i + 1,
                                   SzSub(position, rb.line_starts[i + 2]))
         ELSE IF rb.line_starts[i + 1] <= position
         THEN [line |-> i, col |-> SzSub(position, rb.line_starts[i + 1])]
         ELSE pos_to_line_col_walk(rb, position, i + 1, line, col)
    ELSE [line |-> line, col |-> col]

buffer_pos_to_line_col(rb, position) == pos_to_line_col_walk(rb, position, 0, 0, position)

\* (mutant) the column is clamped to the last byte of the line
buffer_line_col_to_pos_last_byte(rb, line, col) ==
    LET l == IF line >= rb.line_count THEN rb.line_count - 1 ELSE line
        line_start == rb.line_starts[l + 1]
        line_len == buffer_line_length(rb, l)
        c == IF col >= line_len /\ line_len > 0 THEN line_len - 1 ELSE col
    IN SzAdd(line_start, c)

buffer_line_col_to_pos(rb, line, col) ==
    LET l == IF line >= rb.line_count THEN rb.line_count - 1 ELSE line
        line_start == rb.line_starts[l + 1]
        line_len == buffer_line_length(rb, l)
        c == IF col > line_len THEN line_len ELSE col
    IN SzAdd(line_start, c)

\* ------------------------------------------------------------------------
\* main.c: the editor's process-wide state
\* ------------------------------------------------------------------------
VARIABLES
    g_buffer,           \* NULL or <<the Buffer>>
    g_cursor,           \* [position, line, column, preferred_column]
    g_mode,
    g_selection_start,
    g_has_selection,
    g_search_pattern,
    ret,                \* value returned by the last call (0 after a void one)
    out,                \* string returned by the last call (NullText if none)
    failed,             \* the allocation that failed during the last call
    hung,               \* the last call never returned, or it wrote outside an
                        \* allocation and the program stopped there
    last                \* the last call made by the host: its name and arguments

vars == <<g_buffer, g_cursor, g_mode, g_selection_start, g_has_selection,
          g_search_pattern, ret, out, failed, hung, last>>

MODE_NORMAL == 0
MODE_INSERT == 1
MODE_VISUAL == 2
MODE_COMMAND == 3
MODE_SEARCH == 4

Cursor(p, l, c, pc) == [position |-> p, line |-> l, column |-> c, preferred_column |-> pc]

Call(op, a, b, text, path) == [op |-> op, a |-> a, b |-> b, text |-> text, path |-> path]

Init ==
    /\ g_buffer = NULL
    /\ g_cursor = Cursor(0, 0, 0, 0)
    /\ g_mode = MODE_NORMAL
    /\ g_selection_start = 0
    /\ g_has_selection = FALSE
    /\ g_search_pattern = <<>>
    /\ ret = 0
    /\ out = NullText
    /\ failed = "none"
    /\ hung = FALSE
    /\ last = Call("start", 0, 0, <<>>, "")

Bool(x) == IF x THEN 1 ELSE 0

\* The buffer the line queries leave behind.
Rebuilt(g) == IF g = NULL THEN NULL ELSE <<rebuild_line_cache(g[1])>>

\* (mutant) a tab is not whitespace
IsSpace_no_tab(c) == c = SP \/ c = NL

IsSpace(c) == c = SP \/ c = TAB \/ c = NL

update_cursor_line_col(g, cur) ==
    IF g = NULL THEN cur
    ELSE LET lc == buffer_pos_to_line_col(rebuild_line_cache(g[1]), cur.position)
         IN [cur EXCEPT !.line = lc.line, !.column = lc.col]

clamp_cursor(g, cur) ==
    IF g = NULL THEN cur
    ELSE LET len == buffer_length(g)
         IN update_cursor_line_col(g, [cur EXCEPT !.position = IF @ > len THEN len ELSE @])

\* Which branch of buffer_insert / buffer_delete a call takes (for `last`).
insert_path(g, position, text) ==
    IF g = NULL \/ text = NullText \/ Len(text) = 0 \/ position > g[1].total_length
    THEN "fail"
    ELSE LET f == find_piece_at(g[1], position)
         IN IF f.piece_index = piece_count(g[1]) THEN "end"
            ELSE IF f.offset = 0 THEN "before" ELSE "split"

delete_path(g, position, length) ==
    IF g = NULL \/ length = 0 \/ SzAdd(position, length) > g[1].total_length THEN "fail"
    ELSE LET s == find_piece_at(g[1], position)
             e == find_piece_at(g[1], SzAdd(position, length))
         IN IF ~s.found \/ ~e.found THEN "fail"
            ELSE IF s.piece_index = e.piece_index THEN "within"
            ELSE IF e.piece_index = piece_count(g[1]) THEN "multi_to_end"
            ELSE IF e.offset = 0 /\ e.piece_index = s.piece_index + 1 THEN "to_boundary"
            ELSE "multi"

\* ---- lifecycle ----------------------------------------------------------
editor_init ==
    /\ ~hung
    /\ g_buffer' = <<buffer_create(<<>>)>>
    /\ g_cursor' = Cursor(0, 0, 0, 0)
    /\ g_mode' = MODE_NORMAL
    /\ g_has_selection' = FALSE
    /\ ret' = 1
    /\ out' = NullText
    /\ failed' = "none"
    /\ last' = Call("editor_init", 0, 0, <<>>, "")
    /\ UNCHANGED <<g_selection_start, g_search_pattern, hung>>

editor_load_text(text) ==
    /\ ~hung
    /\ g_buffer' = <<buffer_create(text)>>
    /\ g_cursor' = Cursor(0, 0, 0, 0)
    /\ ret' = 1
    /\ out' = NullText
    /\ failed' = "none"
    /\ last' = Call("editor_load_text", 0, 0, text, "")
    /\ UNCHANGED <<g_mode, g_selection_start, g_has_selection, g_search_pattern, hung>>

editor_destroy ==
    /\ ~hung
    /\ g_buffer' = NULL
    /\ ret' = 0
    /\ out' = NullText
    /\ failed' = "none"
    /\ last' = Call("editor_destroy", 0, 0, <<>>, "")
    /\ UNCHANGED <<g_cursor, g_mode, g_selection_start, g_has_selection, g_search_pattern,
                   hung>>

\* ---- position-addressed edits -------------------------------------------
insert_text(position, text) ==
    /\ ~hung
    /\ last' = Call("insert_text", position, 0, text, insert_path(g_buffer, position, text))
    /\ IF g_buffer = NULL \/ text = NullText
       THEN /\ ret' = 0
            /\ UNCHANGED <<g_buffer, hung>>
       ELSE LET r == buffer_insert(g_buffer[1], position, text, "none")
            IN /\ g_buffer' = <<r.buf>>
               /\ hung' = r.hang
               /\ ret' = Bool(r.ret)
    /\ out' = NullText
    /\ failed' = "none"
    /\ UNCHANGED <<g_cursor, g_mode, g_selection_start, g_has_selection, g_search_pattern>>

delete_text(position, length) ==
    /\ ~hung
    /\ last' = Call("delete_text", position, length, <<>>,
                    delete_path(g_buffer, position, length))
    /\ IF g_buffer = NULL
       THEN /\ ret' = 0
            /\ UNCHANGED <<g_buffer, hung>>
       ELSE LET r == buffer_delete(g_buffer[1], position, length, "none")
            IN /\ g_buffer' = <<r.buf>>
               /\ ret' = Bool(r.ret)
               /\ hung' \in IF r.ub THEN BOOLEAN ELSE {FALSE}
    /\ out' = NullText
    /\ failed' = "none"
    /\ UNCHANGED <<g_cursor, g_mode, g_selection_start, g_has_selection, g_search_pattern>>

\* insert_text and delete_text while the realloc named by oom returns NULL.
insert_text_oom(position, text, oom) ==
    /\ ~hung
    /\ last' = Call("insert_text", position, 0, text, insert_path(g_buffer, position, text))
    /\ IF g_buffer = NULL \/ text = NullText
       THEN /\ ret' = 0
            /\ failed' = "none"
            /\ UNCHANGED <<g_buffer, hung>>
       ELSE LET r == buffer_insert(g_buffer[1], position, text, oom)
            IN /\ g_buffer' = <<r.buf>>
               /\ hung' = r.hang
               /\ ret' = Bool(r.ret)
               /\ failed' = insert_failed_alloc(g_buffer[1], position, text, oom)
    /\ out' = NullText
    /\ UNCHANGED <<g_cursor, g_mode, g_selection_start, g_has_selection, g_search_pattern>>

delete_text_oom(position, length, oom) ==
    /\ ~hung
    /\ last' = Call("delete_text", position, length, <<>>,
                    delete_path(g_buffer, position, length))
    /\ IF g_buffer = NULL
       THEN /\ ret' = 0
            /\ failed' = "none"
            /\ UNCHANGED <<g_buffer, hung>>
       ELSE LET r == buffer_delete(g_buffer[1], position, length, oom)
            IN /\ g_buffer' = <<r.buf>>
               /\ ret' = Bool(r.ret)
               /\ failed' = delete_failed_alloc(g_buffer[1], position, length, oom)
               /\ hung' \in IF r.ub THEN BOOLEAN ELSE {FALSE}
    /\ out' = NullText
    /\ UNCHANGED <<g_cursor, g_mode, g_selection_start, g_has_selection, g_search_pattern>>

\* buffer_replace on the editor's buffer (buffer.h API; main.c has no wrapper).
\* last.text is new_text[0 .. new_length), or NullText.
replace(position, old_length, new_text, new_length) ==
    /\ ~hung
    /\ g_buffer # NULL
    /\ LET r == buffer_replace(g_buffer[1], position, old_length, new_text, new_length,
                               "none")
       IN /\ g_buffer' = <<r.buf>>
          /\ ret' = Bool(r.ret)
          /\ hung' = r.hang
          /\ failed' = "none"
    /\ last' = Call("buffer_replace", position, old_length,
                    IF new_text = NullText THEN NullText ELSE Slice(new_text, 0, new_length),
                    IF new_text = NullText THEN "null" ELSE "")
    /\ out' = NullText
    /\ UNCHANGED <<g_cursor, g_mode, g_selection_start, g_has_selection, g_search_pattern>>

\* ---- document queries ---------------------------------------------------
get_line_count ==
    /\ ~hung
    /\ g_buffer' = Rebuilt(g_buffer)
    /\ ret' = IF g_buffer = NULL THEN 0 ELSE g_buffer'[1].line_count
    /\ out' = NullText
    /\ failed' = "none"
    /\ last' = Call("get_line_count", 0, 0, <<>>, "")
    /\ UNCHANGED <<g_cursor, g_mode, g_selection_start, g_has_selection, g_search_pattern,
                   hung>>

get_buffer_length ==
    /\ ~hung
    /\ ret' = IF g_buffer = NULL THEN 0 ELSE buffer_length(g_buffer)
    /\ out' = NullText
    /\ failed' = "none"
    /\ last' = Call("get_buffer_length", 0, 0, <<>>, "")
    /\ UNCHANGED <<g_buffer, g_cursor, g_mode, g_selection_start, g_has_selection,
                   g_search_pattern, hung>>

get_all_text ==
    /\ ~hung
    /\ out' = IF g_buffer = NULL THEN NullText ELSE buffer_get_all(g_buffer[1])
    /\ ret' = 0
    /\ failed' = "none"
    /\ last' = Call("get_all_text", 0, 0, <<>>, "")
    /\ UNCHANGED <<g_buffer, g_cursor, g_mode, g_selection_start, g_has_selection,
                   g_search_pattern, hung>>

get_line(line_number) ==
    /\ ~hung
    /\ g_buffer' = Rebuilt(g_buffer)
    /\ out' = IF g_buffer = NULL THEN NullText
              ELSE buffer_get_line(g_buffer'[1], line_number)
    /\ ret' = 0
    /\ failed' = "none"
    /\ last' = Call("get_line", line_number, 0, <<>>, "")
    /\ UNCHANGED <<g_cursor, g_mode, g_selection_start, g_has_selection, g_search_pattern,
                   hung>>

\* ---- cursor ---------------------------------------------------------------
\* Frame of a void cursor operation: only the cursor and the line cache move.
CursorStep(op, a, g2, cur2) ==
    /\ ~hung
    /\ g_buffer' = g2
    /\ g_cursor' = cur2
    /\ last' = Call(op, a, 0, <<>>, "")
    /\ ret' = 0
    /\ out' = NullText
    /\ failed' = "none"
    /\ UNCHANGED <<g_mode, g_selection_start, g_has_selection, g_search_pattern, hung>>

\* preferred_column <- column
KeepColumn(cur) == [cur EXCEPT !.preferred_column = cur.column]

set_cursor_position(position) ==
    CursorStep("set_cursor_position", position, Rebuilt(g_buffer),
               KeepColumn(clamp_cursor(g_buffer, [g_cursor EXCEPT !.position = position])))

\* ---- mode ------------------------------------------------------------------
\* (mutant) leaving for INSERT drops the selection as NORMAL does
set_mode_selection_insert_clears(mode) ==
    IF mode = MODE_VISUAL THEN [start |-> g_cursor.position, has |-> TRUE]
    ELSE IF mode = MODE_NORMAL \/ mode = MODE_INSERT
    THEN [start |-> g_selection_start, has |-> FALSE]
    ELSE [start |-> g_selection_start, has |-> g_has_selection]

\* g_selection_start and g_has_selection as set_mode leaves them
\* (mutant) returning to NORMAL keeps the selection
set_mode_selection_normal_keeps(mode) ==
    IF mode = MODE_VISUAL THEN [start |-> g_cursor.position, has |-> TRUE]
    ELSE [start |-> g_selection_start, has |-> g_has_selection]

set_mode_selection(mode) ==
    IF mode = MODE_VISUAL THEN [start |-> g_cursor.position, has |-> TRUE]
    ELSE IF mode = MODE_NORMAL THEN [start |-> g_selection_start, has |-> FALSE]
    ELSE [start |-> g_selection_start, has |-> g_has_selection]

set_mode(mode) ==
    /\ ~hung
    /\ g_mode' = mode
    /\ g_selection_start' = set_mode_selection(mode).start
    /\ g_has_selection' = set_mode_selection(mode).has
    /\ ret' = 0
    /\ out' = NullText
    /\ failed' = "none"
    /\ last' = Call("set_mode", mode, 0, <<>>, "")
    /\ UNCHANGED <<g_buffer, g_cursor, g_search_pattern, hung>>

\* ---- vim motions ----------------------------------------------------------
motion_h ==
    IF g_cursor.position > 0
    THEN CursorStep("motion_h", 0, Rebuilt(g_buffer),
                    KeepColumn(update_cursor_line_col(
                        g_buffer, [g_cursor EXCEPT !.position = SzSub(@, 1)])))
    ELSE CursorStep("motion_h", 0, g_buffer, g_cursor)

motion_l ==
    IF g_buffer # NULL /\ g_cursor.position < buffer_length(g_buffer)
    THEN CursorStep("motion_l", 0, Rebuilt(g_buffer),
                    KeepColumn(update_cursor_line_col(
                        g_buffer, [g_cursor EXCEPT !.position = SzAdd(@, 1)])))
    ELSE CursorStep("motion_l", 0, g_buffer, g_cursor)

\* Length of a line without its trailing newline, as motion_j, motion_k and
\* motion_line_end compute it from buffer_line_length and buffer_char_at.
line_len_no_newline(rb, line_start, line_len) ==
    IF line_len > 0 /\ buffer_char_at(rb, SzSub(SzAdd(line_start, line_len), 1)) = NL
    THEN line_len - 1
    ELSE line_len

\* (mutant) the column is clamped to the last byte of the target line
vertical_target_last_byte(rb, cur, target_line) ==
    LET target_start == buffer_line_start(rb, target_line)
        target_len == line_len_no_newline(rb, target_start,
                                          buffer_line_length(rb, target_line))
        last_col == IF target_len > 0 THEN target_len - 1 ELSE 0
        new_col == IF cur.preferred_column > last_col THEN last_col
                   ELSE cur.preferred_column
    IN update_cursor_line_col(<<rb>>, [cur EXCEPT !.position = SzAdd(target_start, new_col)])

\* The cursor after a vertical move to target_line.
vertical_target(rb, cur, target_line) ==
    LET target_start == buffer_line_start(rb, target_line)
        target_len == line_len_no_newline(rb, target_start,
                                          buffer_line_length(rb, target_line))
        new_col == IF cur.preferred_column > target_len THEN target_len
                   ELSE cur.preferred_column
    IN update_cursor_line_col(<<rb>>, [cur EXCEPT !.position = SzAdd(target_start, new_col)])

motion_j ==
    IF g_buffer = NULL THEN CursorStep("motion_j", 0, g_buffer, g_cursor)
    ELSE LET rb == rebuild_line_cache(g_buffer[1])
         IN IF SzAdd(g_cursor.line, 1) >= rb.line_count
            THEN CursorStep("motion_j", 0, <<rb>>, g_cursor)
            ELSE CursorStep("motion_j", 0, <<rb>>,
                            vertical_target(rb, g_cursor, SzAdd(g_cursor.line, 1)))

motion_k ==
    IF g_buffer = NULL \/ g_cursor.line = 0 THEN CursorStep("motion_k", 0, g_buffer, g_cursor)
    ELSE LET rb == rebuild_line_cache(g_buffer[1])
         IN CursorStep("motion_k", 0, <<rb>>,
                       vertical_target(rb, g_cursor, SzSub(g_cursor.line, 1)))

RECURSIVE skip_word(_, _, _)
skip_word(b, pos, len) ==
    IF pos < len /\ ~IsSpace(buffer_char_at(b, pos)) THEN skip_word(b, pos + 1, len) ELSE pos

RECURSIVE skip_whitespace(_, _, _)
skip_whitespace(b, pos, len) ==
    IF pos < len /\ IsSpace(buffer_char_at(b, pos)) THEN skip_whitespace(b, pos + 1, len)
    ELSE pos

motion_w ==
    IF g_buffer = NULL THEN CursorStep("motion_w", 0, g_buffer, g_cursor)
    ELSE LET b == g_buffer[1]
             len == b.total_length
             pos == skip_whitespace(b, skip_word(b, g_cursor.position, len), len)
         IN CursorStep("motion_w", 0, Rebuilt(g_buffer),
                       KeepColumn(update_cursor_line_col(
                           g_buffer, [g_cursor EXCEPT !.position = pos])))

RECURSIVE skip_whitespace_back(_, _)
skip_whitespace_back(b, pos) ==
    IF pos > 0 /\ IsSpace(buffer_char_at(b, pos)) THEN skip_whitespace_back(b, pos - 1)
    ELSE pos

RECURSIVE find_word_start(_, _)
find_word_start(b, pos) ==
    IF pos > 0 /\ ~IsSpace(buffer_char_at(b, pos - 1)) THEN find_word_start(b, pos - 1)
    ELSE pos

motion_b ==
    IF g_buffer = NULL \/ g_cursor.position = 0
    THEN CursorStep("motion_b", 0, g_buffer, g_cursor)
    ELSE LET b == g_buffer[1]
             pos == find_word_start(b, skip_whitespace_back(b, g_cursor.position - 1))
         IN CursorStep("motion_b", 0, Rebuilt(g_buffer),
                       KeepColumn(update_cursor_line_col(
                           g_buffer, [g_cursor EXCEPT !.position = pos])))

\* `while (pos < len - 1)` of motion_e, in size_t arithmetic
RECURSIVE word_end(_, _, _)
word_end(b, pos, len) ==
    IF pos < SzSub(len, 1) /\ ~IsSpace(buffer_char_at(b, SzAdd(pos, 1)))
    THEN word_end(b, SzAdd(pos, 1), len)
    ELSE pos

motion_e ==
    IF g_buffer = NULL THEN CursorStep("motion_e", 0, g_buffer, g_cursor)
    ELSE LET b == g_buffer[1]
             len == b.total_length
             p0 == g_cursor.position
             p1 == IF p0 < len THEN p0 + 1 ELSE p0
             pos == word_end(b, skip_whitespace(b, p1, len), len)
         IN CursorStep("motion_e", 0, Rebuilt(g_buffer),
                       KeepColumn(update_cursor_line_col(
                           g_buffer, [g_cursor EXCEPT !.position = pos])))

motion_line_start ==
    IF g_buffer = NULL THEN CursorStep("motion_line_start", 0, g_buffer, g_cursor)
    ELSE LET rb == rebuild_line_cache(g_buffer[1])
             cur == update_cursor_line_col(
                        <<rb>>, [g_cursor EXCEPT
                                   !.position = buffer_line_start(rb, g_cursor.line)])
         IN CursorStep("motion_line_start", 0, <<rb>>, [cur EXCEPT !.preferred_column = 0])

motion_line_end ==
    IF g_buffer = NULL THEN CursorStep("motion_line_end", 0, g_buffer, g_cursor)
    ELSE LET rb == rebuild_line_cache(g_buffer[1])
             line_start == buffer_line_start(rb, g_cursor.line)
             line_len == line_len_no_newline(rb, line_start,
                                             buffer_line_length(rb, g_cursor.line))
         IN CursorStep("motion_line_end", 0, <<rb>>,
                       KeepColumn(update_cursor_line_col(
                           <<rb>>, [g_cursor EXCEPT !.position = SzAdd(line_start, line_len)])))

motion_file_start ==
    CursorStep("motion_file_start", 0, Rebuilt(g_buffer),
               [update_cursor_line_col(g_buffer, [g_cursor EXCEPT !.position = 0])
                  EXCEPT !.preferred_column = 0])

motion_file_end ==
    IF g_buffer = NULL THEN CursorStep("motion_file_end", 0, g_buffer, g_cursor)
    ELSE LET rb == rebuild_line_cache(g_buffer[1])
             cur == IF rb.line_count > 0
                    THEN [g_cursor EXCEPT !.position = buffer_line_start(rb, rb.line_count - 1)]
                    ELSE g_cursor
         IN CursorStep("motion_file_end", 0, <<rb>>,
                       KeepColumn(update_cursor_line_col(<<rb>>, cur)))

\* ---- insert / delete at the cursor ----------------------------------------
\* Frame of an int-returning cursor edit.
EditStep(op, text, path, g2, cur2, r, h) ==
    /\ ~hung
    /\ g_buffer' = g2
    /\ g_cursor' = cur2
    /\ ret' = r
    /\ hung' = h
    /\ out' = NullText
    /\ failed' = "none"
    /\ last' = Call(op, 0, 0, text, path)
    /\ UNCHANGED <<g_mode, g_selection_start, g_has_selection, g_search_pattern>>

\* Body shared by insert_char (length 1) and insert_string (length strlen).
insert_at_cursor(op, text) ==
    LET path == insert_path(g_buffer, g_cursor.position, text)
    IN IF g_buffer = NULL \/ text = NullText
       THEN EditStep(op, text, path, g_buffer, g_cursor, 0, FALSE)
       ELSE LET r == buffer_insert(g_buffer[1], g_cursor.position, text, "none")
            IN IF r.hang THEN EditStep(op, text, path, <<r.buf>>, g_cursor, 0, TRUE)
               ELSE IF r.ret
               THEN EditStep(op, text, path, <<rebuild_line_cache(r.buf)>>,
                             update_cursor_line_col(
                                 <<r.buf>>,
                                 [g_cursor EXCEPT !.position = SzAdd(@, Len(text))]),
                             1, FALSE)
               ELSE EditStep(op, text, path, <<r.buf>>, g_cursor, 0, FALSE)

insert_char(c) == insert_at_cursor("insert_char", <<c>>)

insert_string(str) == insert_at_cursor("insert_string", str)

delete_char_before ==
    IF g_buffer = NULL \/ g_cursor.position = 0
    THEN EditStep("delete_char_before", <<>>, "fail", g_buffer, g_cursor, 0, FALSE)
    ELSE LET pos == SzSub(g_cursor.position, 1)
             path == delete_path(g_buffer, pos, 1)
             r == buffer_delete(g_buffer[1], pos, 1, "none")
         IN IF r.ret
            THEN EditStep("delete_char_before", <<>>, path, <<rebuild_line_cache(r.buf)>>,
                          update_cursor_line_col(<<r.buf>>, [g_cursor EXCEPT !.position = pos]),
                          1, FALSE)
            ELSE EditStep("delete_char_before", <<>>, path, <<r.buf>>, g_cursor, 0, FALSE)

delete_char_after ==
    IF g_buffer # NULL /\ g_cursor.position < buffer_length(g_buffer)
    THEN LET r == buffer_delete(g_buffer[1], g_cursor.position, 1, "none")
         IN EditStep("delete_char_after", <<>>, delete_path(g_buffer, g_cursor.position, 1),
                     <<r.buf>>, g_cursor, Bool(r.ret), FALSE)
    ELSE EditStep("delete_char_after", <<>>, "fail", g_buffer, g_cursor, 0, FALSE)

delete_line ==
    IF g_buffer = NULL THEN EditStep("delete_line", <<>>, "fail", g_buffer, g_cursor, 0, FALSE)
    ELSE LET rb == rebuild_line_cache(g_buffer[1])
             line_start == buffer_line_start(rb, g_cursor.line)
             line_len == buffer_line_length(rb, g_cursor.line)
             path == delete_path(<<rb>>, line_start, line_len)
             r == buffer_delete(rb, line_start, line_len, "none")
         IN IF r.ret
            THEN EditStep("delete_line", <<>>, path, <<rebuild_line_cache(r.buf)>>,
                          clamp_cursor(<<r.buf>>, [g_cursor EXCEPT !.position = line_start]),
                          1, FALSE)
            ELSE EditStep("delete_line", <<>>, path, <<r.buf>>, g_cursor, 0, FALSE)

\* ---- selection -------------------------------------------------------------
\* The values the two selection queries return in the current state.
get_selection_start ==
    IF ~g_has_selection THEN g_cursor.position
    ELSE IF g_selection_start < g_cursor.position THEN g_selection_start
    ELSE g_cursor.position

get_selection_end ==
    IF ~g_has_selection THEN g_cursor.position
    ELSE IF g_selection_start > g_cursor.position THEN g_selection_start
    ELSE g_cursor.position

\* ---- search ----------------------------------------------------------------
\* sizeof(g_search_pattern)
SEARCH_PATTERN_SIZE == 256

set_search_pattern(pattern) ==
    /\ ~hung
    /\ g_search_pattern' = IF Len(pattern) > SEARCH_PATTERN_SIZE - 1
                           THEN Slice(pattern, 0, SEARCH_PATTERN_SIZE - 1)
                           ELSE pattern
    /\ ret' = 0
    /\ out' = NullText
    /\ failed' = "none"
    /\ last' = Call("set_search_pattern", 0, 0, pattern, "")
    /\ UNCHANGED <<g_buffer, g_cursor, g_mode, g_selection_start, g_has_selection, hung>>

\* Frame of a search; last.a is the cursor position the search started from.
SearchStep(op, g2, cur2, r) ==
    /\ ~hung
    /\ g_buffer' = g2
    /\ g_cursor' = cur2
    /\ ret' = r
    /\ out' = NullText
    /\ failed' = "none"
    /\ last' = Call(op, g_cursor.position, 0, g_search_pattern, "")
    /\ UNCHANGED <<g_mode, g_selection_start, g_has_selection, g_search_pattern, hung>>

\* The cursor moved to a hit.
search_hit(op, found) ==
    SearchStep(op, Rebuilt(g_buffer),
               KeepColumn(update_cursor_line_col(g_buffer,
                                                 [g_cursor EXCEPT !.position = found])),
               1)

search_next ==
    IF g_buffer = NULL \/ g_search_pattern = <<>>
    THEN SearchStep("search_next", g_buffer, g_cursor, 0)
    ELSE \E found \in buffer_find_next(g_buffer[1], SzAdd(g_cursor.position, 1),
                                       g_search_pattern) :
           IF found >= 0 THEN search_hit("search_next", found)
           ELSE \E wrapped \in buffer_find_next(g_buffer[1], 0, g_search_pattern) :
                  IF wrapped >= 0 THEN search_hit("search_next", wrapped)
                  ELSE SearchStep("search_next", g_buffer, g_cursor, 0)

search_prev ==
    IF g_buffer = NULL \/ g_search_pattern = <<>>
    THEN SearchStep("search_prev", g_buffer, g_cursor, 0)
    ELSE \E found \in buffer_find_prev(g_buffer[1], g_cursor.position, g_search_pattern) :
           IF found >= 0 THEN search_hit("search_prev", found)
           ELSE \E wrapped \in buffer_find_prev(g_buffer[1], buffer_length(g_buffer),
                                                g_search_pattern) :
                  IF wrapped >= 0 THEN search_hit("search_prev", wrapped)
                  ELSE SearchStep("search_prev", g_buffer, g_cursor, 0)

\* ------------------------------------------------------------------------
\* Inputs of the host
\* ------------------------------------------------------------------------
\* Initial documents: empty, ending in a newline, starting with one.
InitTexts == {<<>>, <<"a", NL>>, <<NL, "a", "a">>}
\* Inserted strings: one byte, and two bytes ending in a newline.
InsertTexts == {<<SP>>, <<"a", NL>>}

DocLen == buffer_length(g_buffer)

\* Number of lines of the document (0 without a buffer).
DocLines == IF g_buffer = NULL THEN 0 ELSE CountNL(buffer_get_all(g_buffer[1])) + 1

\* Bytes appended to add storage so far stay within MaxAdd.
AddRoom(text) ==
    IF text = NullText \/ g_buffer = NULL THEN TRUE
    ELSE add_length(g_buffer[1]) + Len(text) <= MaxAdd

\* ------------------------------------------------------------------------
\* Spec: the piece table under position-addressed inserts and deletes.
\* Positions and ranges are every valid one and those one byte too far.
\* ------------------------------------------------------------------------
Next ==
    \/ \E text \in InitTexts : editor_load_text(text)
    \/ \E position \in 0 .. DocLen + 1, text \in InsertTexts :
          AddRoom(text) /\ insert_text(position, text)
    \/ \E position \in 0 .. DocLen, length \in 1 .. DocLen + 1 :
          position + length <= DocLen + 1 /\ delete_text(position, length)
    \/ get_line_count
    \/ \E line_number \in 0 .. DocLines : get_line(line_number)

Spec == Init /\ [][Next]_vars

\* ------------------------------------------------------------------------
\* Properties of the piece table
\* ------------------------------------------------------------------------
Live == g_buffer # NULL
Buf == g_buffer[1]

RECURSIVE SumLengths(_)
SumLengths(pieces) ==
    IF pieces = <<>> THEN 0 ELSE Head(pieces).length + SumLengths(Tail(pieces))

\* C1: for every reachable buffer, every pos <= length and every non-empty s,
\* buffer_insert returns true and get_all afterwards is
\* get_all(B)[:pos] + s + get_all(B)[pos:].
C1_InsertReturnsSpliced ==
    [][(/\ last'.op = "insert_text"
        /\ Live
        /\ last'.text # NullText
        /\ Len(last'.text) > 0
        /\ last'.a <= Buf.total_length)
       => (/\ ~hung'
           /\ ret' = 1
           /\ buffer_get_all(g_buffer'[1])
                = Slice(buffer_get_all(Buf), 0, last'.a) \o last'.text
                  \o Slice(buffer_get_all(Buf), last'.a, Buf.total_length))]_vars

C4_InsertTerminates ==
    (last.op = "insert_text" /\ last.path = "split") => ~hung

\* ------------------------------------------------------------------------
\* Properties of the line index
\* ------------------------------------------------------------------------
\* Offsets of the newline bytes of a text, and the offsets where lines start.
NewlineOffsets(text) == {i \in 0 .. Len(text) - 1 : text[i + 1] = NL}
LineStartOffsets(text) == {0} \cup {i + 1 : i \in NewlineOffsets(text)}

\* C8: at any point after any inserts and deletes line_count is the number
\* of newline bytes of get_all() plus 1 (so >= 1), and a line query never
\* sees an index older than the last mutation: a clean index is the index
\* of the current document.
C8_LineCount ==
    Live =>
      LET text == buffer_get_all(Buf)
          rb == rebuild_line_cache(Buf)
      IN /\ rb.line_count = Cardinality(NewlineOffsets(text)) + 1
         /\ rb.line_count >= 1
         /\ {rb.line_starts[i] : i \in 1 .. rb.line_count} = LineStartOffsets(text)
         /\ (last.op = "get_line_count" => ret = rb.line_count /\ ~Buf.lines_dirty)

\* A line query answered from an index rebuilt after a mutation that removed
\* lines: the allocation still has the size of the earlier, longer index.
C8_Witness ==
    /\ Live
    /\ last.op = "get_line_count"
    /\ ret >= 2
    /\ Buf.line_alloc > ret + INITIAL_LINE_CAPACITY

\* C9: line_col_to_pos(pos_to_line_col(p)) = p for every p in [0, length].
C9_RoundTrip ==
    Live =>
      LET rb == rebuild_line_cache(Buf)
      IN \A p \in 0 .. rb.total_length :
            LET lc == buffer_pos_to_line_col(rb, p)
            IN buffer_line_col_to_pos(rb, lc.line, lc.col) = p

\* A document of several lines that ends without a newline and holds a
\* newline byte: positions at a line start, on a newline and at the end.
C9_Witness ==
    /\ Live
    /\ Buf.total_length >= 3
    /\ buffer_char_at(Buf, Buf.total_length - 1) # NL
    /\ \E p \in 1 .. Buf.total_length - 1 :
          /\ buffer_char_at(Buf, p) = NL
          /\ buffer_pos_to_line_col(rebuild_line_cache(Buf), p).col = 0

\* Offset of the end of line l without its newline: the l-th newline byte,
\* or the end of the document for the last line.
LineEndOffset(text, l) ==
    LET after == {i \in NewlineOffsets(text) :
                     Cardinality({j \in NewlineOffsets(text) : j < i}) = l}
    IN IF after = {} THEN Len(text) ELSE CHOOSE i \in after : TRUE

\* C10: line_col_to_pos(l, c) clamps l to the last line and c to the line's
\* length without its newline: the result is never past the line's newline
\* byte (the end of the document for the last line).
C10_ClampsBeforeNewline ==
    Live =>
      LET rb == rebuild_line_cache(Buf)
          text == buffer_get_all(Buf)
      IN \A l \in 0 .. rb.line_count, c \in 0 .. rb.total_length + 1 :
            buffer_line_col_to_pos(rb, l, c)
              <= LineEndOffset(text, IF l >= rb.line_count THEN rb.line_count - 1 ELSE l)

\* Bytes of line l of a text: from its start up to its newline byte (or the
\* end of the text).
LineStartOffset(text, l) ==
    IF l = 0 THEN 0
    ELSE 1 + CHOOSE i \in NewlineOffsets(text) :
                 Cardinality({j \in NewlineOffsets(text) : j < i}) = l - 1

LineBytes(text, l) == Slice(text, LineStartOffset(text, l), LineEndOffset(text, l))

\* C11: for every i < line_count get_line(i) returns the bytes from
\* line_start(i) up to but excluding the line's trailing newline, so the
\* result holds no newline byte; for i >= line_count it returns none.
C11_GetLine ==
    (Live /\ last.op = "get_line") =>
      LET text == buffer_get_all(Buf)
          line_count == Cardinality(NewlineOffsets(text)) + 1
      IN IF last.a < line_count
         THEN /\ out # NullText
              /\ out = LineBytes(text, last.a)
              /\ \A k \in 1 .. Len(out) : out[k] # NL
         ELSE out = NullText

\* A line of at least one byte that is followed by a newline was returned.
C11_Witness ==
    /\ Live
    /\ last.op = "get_line"
    /\ out # NullText
    /\ Len(out) >= 1
    /\ buffer_char_at(Buf, LineStartOffset(buffer_get_all(Buf), last.a) + Len(out)) = NL

\* ------------------------------------------------------------------------
\* SpecFail: the piece table when a call fails: a realloc that returns NULL
\* during insert_text or delete_text, and buffer_replace with a null or
\* empty replacement, or a range one byte too long.
\* ------------------------------------------------------------------------
\* The insert appends within MaxAdd, or its add-storage realloc fails.
AddRoomOrFails(position, text, oom) ==
    \/ AddRoom(text)
    \/ g_buffer # NULL /\ insert_failed_alloc(g_buffer[1], position, text, oom) = "add"

\* The inserted string, and the (new_text, new_length) pairs of a replace.
FailTexts == {<<SP>>}
ReplaceArgs == {<<NullText, 1>>, <<<<"a">>, 0>>, <<<<"a">>, 1>>}

FailInitTexts == {<<>>, <<NL, "a", "a">>}

NextFail ==
    \/ \E text \in FailInitTexts : editor_load_text(text)
    \/ \E position \in 0 .. DocLen, text \in FailTexts :
          AddRoom(text) /\ insert_text(position, text)
    \/ \E position \in 0 .. DocLen, text \in FailTexts, oom \in {"add", "pieces"} :
          AddRoomOrFails(position, text, oom) /\ insert_text_oom(position, text, oom)
    \/ \E position \in 0 .. DocLen, length \in 1 .. DocLen :
          position + length <= DocLen /\ delete_text_oom(position, length, "pieces")
    \/ \E position \in 0 .. DocLen, old_length \in 0 .. DocLen + 1, new \in ReplaceArgs :
          /\ position + old_length <= DocLen + 1
          /\ (new[2] = 0 \/ AddRoom(new[1]))
          /\ replace(position, old_length, new[1], new[2])

SpecFail == Init /\ [][NextFail]_vars

\* C12: whenever buffer_replace(pos, old, bytes, n) returns false the
\* document is what it was before the call; whenever it returns true the
\* document is old_doc[:pos] + bytes[:n] + old_doc[pos+old:].
C12_ReplaceAtomic ==
    [][(last'.op = "buffer_replace" /\ ~hung')
       => IF ret' = 0
          THEN buffer_get_all(g_buffer'[1]) = buffer_get_all(Buf)
          ELSE buffer_get_all(g_buffer'[1])
                 = Slice(buffer_get_all(Buf), 0, last'.a)
                   \o (IF last'.text = NullText THEN <<>> ELSE last'.text)
                   \o Slice(buffer_get_all(Buf), last'.a + last'.b, Buf.total_length)]_vars

\* The piece-table invariants of a buffer b.
PieceTableOK(b) ==
    /\ \A i \in 1 .. piece_count(b) :
          /\ b.pieces[i].length > 0
          /\ b.pieces[i].start + b.pieces[i].length <= Len(Storage(b, b.pieces[i]))
    /\ b.total_length = SumLengths(b.pieces)

\* C14: if a realloc (add storage or piece array) fails during buffer_insert
\* or buffer_delete, the call returns false, get_all() is what it was before
\* the call, and the piece-table invariants still hold.
C14_AllocFailureIsClean ==
    [][(failed' # "none" /\ last'.op \in {"insert_text", "delete_text"})
       => (/\ ret' = 0
           /\ ~hung'
           /\ buffer_get_all(g_buffer'[1]) = buffer_get_all(Buf)
           /\ PieceTableOK(g_buffer'[1]))]_vars

\* The piece-array realloc failed in an insert after its bytes had been
\* appended to add storage: the bytes are there, no piece refers to them.
C14_Witness ==
    /\ Live
    /\ failed = "pieces"
    /\ last.op = "insert_text"
    /\ ret = 0
    /\ add_length(Buf) > 0
    /\ \A i \in 1 .. piece_count(Buf) :
          Buf.pieces[i].source = SOURCE_ADD
            => Buf.pieces[i].start + Buf.pieces[i].length < add_length(Buf)

\* ------------------------------------------------------------------------
\* SpecWrap: delete_text over the whole machine word: positions up to one
\* past the end and SIZE_MAX, lengths 0, 1 and SIZE_MAX.  A delete
\* whose position + length wraps can lengthen the document; deletes are
\* offered while the document is at most MaxWrapDoc bytes long.
\* ------------------------------------------------------------------------
MaxWrapDoc == 3

WrapPositions == (0 .. DocLen + 1) \cup {SIZE_MAX}
WrapLengths == {0, 1, SIZE_MAX}

NextWrap ==
    \/ \E text \in InitTexts : editor_load_text(text)
    \/ \E position \in 0 .. DocLen, text \in FailTexts :
          AddRoom(text) /\ insert_text(position, text)
    \/ \E position \in WrapPositions, length \in WrapLengths :
          DocLen <= MaxWrapDoc /\ delete_text(position, length)

SpecWrap == Init /\ [][NextWrap]_vars

\* C13: for all size_t values pos and n whose range [pos, pos + n) is not
\* within [0, length] (pos + n the mathematical sum), delete_text returns
\* false and leaves the pieces, the total length and the document unchanged.
C13_OutOfRangeDeleteRejected ==
    [][(last'.op = "delete_text" /\ Live /\ last'.a + last'.b > Buf.total_length)
       => (/\ ret' = 0
           /\ ~hung'
           /\ g_buffer'[1].pieces = Buf.pieces
           /\ g_buffer'[1].total_length = Buf.total_length
           /\ buffer_get_all(g_buffer'[1]) = buffer_get_all(Buf))]_vars

\* ------------------------------------------------------------------------
\* SpecEd: the editor (cursor, motions, edits at the cursor) over the buffer.
\* The position-addressed edits are those of the first byte: a newline put
\* in front of the document, and the first byte removed.
\* ------------------------------------------------------------------------
EdInitTexts == {<<>>, <<"a", SP, NL>>}

EdRoom(text) ==
    IF text = NullText \/ g_buffer = NULL THEN TRUE
    ELSE add_length(g_buffer[1]) + Len(text) <= MaxEdAdd

NextEd ==
    \/ editor_init
    \/ \E text \in EdInitTexts : editor_load_text(text)
    \/ EdRoom(<<NL>>) /\ insert_text(0, <<NL>>)
    \/ DocLen >= 1 /\ delete_text(0, 1)
    \/ \E position \in 0 .. DocLen + 1 : set_cursor_position(position)
    \/ motion_h
    \/ motion_l
    \/ motion_j
    \/ motion_k
    \/ motion_w
    \/ motion_b
    \/ motion_e
    \/ motion_line_start
    \/ motion_line_end
    \/ motion_file_start
    \/ motion_file_end
    \/ \E c \in {"a"} : EdRoom(<<c>>) /\ insert_char(c)
    \/ \E str \in {<<NL>>, <<>>} : EdRoom(str) /\ insert_string(str)
    \/ delete_char_before
    \/ delete_char_after
    \/ delete_line

SpecEd == Init /\ [][NextEd]_vars

\* ------------------------------------------------------------------------
\* SpecEdit: the editing and lifecycle operations alone (no motion), with the
\* position-addressed edits at every valid position.
\* ------------------------------------------------------------------------
NextEdit ==
    \/ editor_init
    \/ \E text \in EdInitTexts : editor_load_text(text)
    \/ \E position \in 0 .. DocLen : EdRoom(<<NL>>) /\ insert_text(position, <<NL>>)
    \/ \E position \in 0 .. DocLen, length \in 1 .. DocLen :
          position + length <= DocLen /\ delete_text(position, length)
    \/ \E position \in 0 .. DocLen + 1 : set_cursor_position(position)
    \/ \E c \in {"a"} : EdRoom(<<c>>) /\ insert_char(c)
    \/ \E str \in {<<NL>>, <<>>} : EdRoom(str) /\ insert_string(str)
    \/ delete_char_before
    \/ delete_char_after
    \/ delete_line

SpecEdit == Init /\ [][NextEdit]_vars

Motions == {"motion_h", "motion_l", "motion_j", "motion_k", "motion_w", "motion_b",
            "motion_e", "motion_line_start", "motion_line_end", "motion_file_start",
            "motion_file_end"}

\* C5: after every exported editing or lifecycle operation the cursor
\* position is <= the buffer length.
C5_CursorWithinDocument ==
    Live => g_cursor.position <= Buf.total_length

\* C6: after every exported operation the cursor's stored (line, column) is
\* buffer_pos_to_line_col(position) on the current document.
C6_LineColumnDerived ==
    Live =>
      LET lc == buffer_pos_to_line_col(rebuild_line_cache(Buf), g_cursor.position)
      IN g_cursor.line = lc.line /\ g_cursor.column = lc.col

\* C7: a motion applied with a buffer and position <= length leaves the
\* position in [0, length]; on an empty document it leaves it at 0.
C7_MotionsStayInDocument ==
    [][(last'.op \in Motions /\ Live /\ g_cursor.position <= Buf.total_length)
       => (/\ g_cursor'.position >= 0
           /\ g_cursor'.position <= g_buffer'[1].total_length
           /\ (Buf.total_length = 0 => g_cursor'.position = 0))]_vars

\* The position the claim gives a vertical move to line t of the text:
\* line_start(t) + min(preferred_column, length of line t without its newline).
VerticalPosition(text, t, preferred_column) ==
    LET start == LineStartOffset(text, t)
        len == LineEndOffset(text, t) - start
    IN start + (IF preferred_column > len THEN len ELSE preferred_column)

\* C16: motion_j (motion_k) whose target line line + 1 (line - 1) exists sets
\* position to line_start(target) + min(preferred_column, length of the
\* target line without its newline) and leaves preferred_column unchanged;
\* when no target line exists it changes nothing.
C16_VerticalMotion ==
    [][(last'.op \in {"motion_j", "motion_k"} /\ Live)
       => LET text == buffer_get_all(Buf)
              line_count == CountNL(text) + 1
              target == IF last'.op = "motion_j" THEN g_cursor.line + 1
                        ELSE g_cursor.line - 1
          IN IF 0 <= target /\ target < line_count
             THEN /\ g_cursor'.position
                       = VerticalPosition(text, target, g_cursor.preferred_column)
                  /\ g_cursor'.preferred_column = g_cursor.preferred_column
             ELSE g_cursor' = g_cursor]_vars

\* C18: after every successful insert_char or insert_string the cursor's
\* preferred_column equals its new column.
C18_InsertSetsPreferredColumn ==
    (last.op \in {"insert_char", "insert_string"} /\ ret = 1)
      => g_cursor.preferred_column = g_cursor.column

\* ------------------------------------------------------------------------
\* SpecVert: cursor moves over the three-line document "aaa\nbb\ncccc" (and
\* over a one-line document ending in a newline).
\* ------------------------------------------------------------------------
ScenarioText == <<"a", "a", "a", NL, "b", "b", NL, "c", "c", "c", "c">>

NextVert ==
    \/ \E text \in {ScenarioText, <<"a", SP, NL>>} : editor_load_text(text)
    \/ \E position \in 0 .. DocLen + 1 : set_cursor_position(position)
    \/ motion_j
    \/ motion_k
    \/ motion_h
    \/ motion_l
    \/ motion_w
    \/ motion_b
    \/ motion_line_start
    \/ motion_e
    \/ motion_line_end
    \/ motion_file_start
    \/ motion_file_end

SpecVert == Init /\ [][NextVert]_vars

\* The document is the scenario's and the cursor was put at line l, column c.
ScenarioAt(l, c) ==
    /\ Live
    /\ buffer_get_all(Buf) = ScenarioText
    /\ g_cursor.line = l
    /\ g_cursor.column = c

\* C17: after loading "aaa\nbb\ncccc" and placing the cursor at line 0
\* column 2, motion_j leaves the cursor at line 1 column 1 with
\* preferred_column still 2, and a second motion_j leaves it at line 2
\* column 2.
C17_Scenario ==
    [][last'.op = "motion_j"
       => (/\ (last.op = "set_cursor_position" /\ ScenarioAt(0, 2)
                 => /\ g_cursor'.line = 1
                    /\ g_cursor'.column = 1
                    /\ g_cursor'.preferred_column = 2)
           /\ (last.op = "motion_j" /\ Live /\ buffer_get_all(Buf) = ScenarioText
                  /\ g_cursor.line = 1 /\ g_cursor.preferred_column = 2
                 => /\ g_cursor'.line = 2
                    /\ g_cursor'.column = 2))]_vars

\* C17 (amended): the first motion_j leaves the cursor at line 1 column 2,
\* the end of "bb" (min(preferred_column, 2)), with preferred_column still 2;
\* the second leaves it at line 2 column 2.
C17_ScenarioAmended ==
    [][last'.op = "motion_j"
       => (/\ (last.op = "set_cursor_position" /\ ScenarioAt(0, 2)
                 => /\ g_cursor'.line = 1
                    /\ g_cursor'.column = 2
                    /\ g_cursor'.preferred_column = 2)
           /\ (last.op = "motion_j" /\ Live /\ buffer_get_all(Buf) = ScenarioText
                  /\ g_cursor.line = 1 /\ g_cursor.preferred_column = 2
                 => /\ g_cursor'.line = 2
                    /\ g_cursor'.column = 2
                    /\ g_cursor'.preferred_column = 2))]_vars

\* The cursor after the first motion_j of the scenario: on line 1, at the
\* newline that ends "bb".
C17_Witness ==
    /\ last.op = "motion_j"
    /\ ScenarioAt(1, 2)
    /\ g_cursor.position = 6
    /\ g_cursor.preferred_column = 2
    /\ buffer_char_at(Buf, g_cursor.position) = NL

\* ------------------------------------------------------------------------
\* SpecSearch: literal search over short documents, with the cursor moves
\* and position-addressed edits that put the cursor anywhere.
\* ------------------------------------------------------------------------
SearchTexts == {<<>>, <<"a", SP, "a">>, <<SP, "a", "a", "a">>}
SearchPatterns == {<<>>, <<"a">>, <<"a", "a">>, <<SP, "a">>}

NextSearch ==
    \/ \E text \in SearchTexts : editor_load_text(text)
    \/ EdRoom(<<"a">>) /\ insert_text(0, <<"a">>)
    \/ DocLen >= 1 /\ delete_text(0, 1)
    \/ \E position \in 0 .. DocLen : set_cursor_position(position)
    \/ motion_e
    \/ motion_h
    \/ \E pattern \in SearchPatterns : set_search_pattern(pattern)
    \/ search_next
    \/ search_prev

SpecSearch == Init /\ [][NextSearch]_vars

\* Offsets where pattern occurs in text.
MatchStarts(text, pattern) ==
    IF pattern = <<>> THEN {}
    ELSE {i \in 0 .. Len(text) - Len(pattern) :
             Slice(text, i, i + Len(pattern)) = pattern}

SetMin(S) == CHOOSE x \in S : \A y \in S : x <= y

\* C19: whenever search_next or search_prev returns success, the document
\* bytes at [position, position + len(pattern)) are the stored pattern and
\* position + len(pattern) <= length.
C19_HitIsMatch ==
    (last.op \in {"search_next", "search_prev"} /\ ret = 1)
      => /\ Live
         /\ g_cursor.position + Len(g_search_pattern) <= Buf.total_length
         /\ g_cursor.position \in MatchStarts(buffer_get_all(Buf), g_search_pattern)

\* C20: search_next moves the cursor to the smallest match start >=
\* position + 1 if there is one, otherwise to the smallest match start of
\* the document, and fails, leaving the cursor unchanged, only when the
\* pattern is empty or occurs nowhere.
C20_SearchNextOrder ==
    [][last'.op = "search_next"
       => LET M == IF Live THEN MatchStarts(buffer_get_all(Buf), g_search_pattern) ELSE {}
              after == {i \in M : i >= g_cursor.position + 1}
          IN IF M = {}
             THEN ret' = 0 /\ g_cursor' = g_cursor
             ELSE /\ ret' = 1
                  /\ g_cursor'.position = IF after # {} THEN SetMin(after) ELSE SetMin(M)]_vars

\* A search_next that started on the last of several matches and wrapped
\* around to the first one, which is not at offset 0.
C20_Witness ==
    /\ Live
    /\ last.op = "search_next"
    /\ ret = 1
    /\ Cardinality(MatchStarts(buffer_get_all(Buf), g_search_pattern)) >= 2
    /\ last.a \in MatchStarts(buffer_get_all(Buf), g_search_pattern)
    /\ g_cursor.position < last.a
    /\ g_cursor.position > 0

SetMax(S) == CHOOSE x \in S : \A y \in S : x >= y

\* C21: search_prev moves the cursor to the last match that starts before
\* the current position whenever there is one (a match that overlaps the
\* cursor position included), and wraps to the last match of the document
\* only when no match starts before the position.
C21_SearchPrevOrder ==
    [][last'.op = "search_prev"
       => LET M == IF Live THEN MatchStarts(buffer_get_all(Buf), g_search_pattern) ELSE {}
              before == {i \in M : i < g_cursor.position}
          IN IF M = {}
             THEN ret' = 0 /\ g_cursor' = g_cursor
             ELSE /\ ret' = 1
                  /\ g_cursor'.position = IF before # {} THEN SetMax(before) ELSE SetMax(M)]_vars

\* ------------------------------------------------------------------------
\* SpecStore: inserts of different bytes that fill add storage past its
\* first capacity, between deletes of every range.
\* ------------------------------------------------------------------------
MaxStoreAdd == 3

StoreInitTexts == {<<>>, <<"a", NL>>}
StoreTexts == {<<"a">>, <<"b", NL>>}

StoreRoom(text) ==
    IF g_buffer = NULL THEN TRUE
    ELSE add_length(g_buffer[1]) + Len(text) <= MaxStoreAdd

NextStore ==
    \/ \E text \in StoreInitTexts : editor_load_text(text)
    \/ \E position \in 0 .. DocLen + 1, text \in StoreTexts :
          StoreRoom(text) /\ insert_text(position, text)
    \/ \E position \in 0 .. DocLen, length \in 1 .. DocLen + 1 :
          position + length <= DocLen + 1 /\ delete_text(position, length)

SpecStore == Init /\ [][NextStore]_vars

\* The bytes a piece designates in the storage of b.
PieceBytes(b, piece) == Slice(Storage(b, piece), piece.start, piece.start + piece.length)

\* C22: add storage is append-only and original storage is immutable: over
\* every insert and delete add_length never decreases, no add-storage byte
\* below the old add_length changes, original storage stays as it is, a
\* delete writes to neither storage, and every piece that survives the
\* operation designates the same bytes before and after it.
C22_StorageAppendOnly ==
    [][(last'.op \in {"insert_text", "delete_text"} /\ Live)
       => LET b == Buf
              b2 == g_buffer'[1]
          IN /\ b2.original = b.original
             /\ add_length(b2) >= add_length(b)
             /\ Slice(b2.add_buffer, 0, add_length(b)) = b.add_buffer
             /\ (last'.op = "delete_text" => b2.add_buffer = b.add_buffer)
             /\ \A i \in 1 .. piece_count(b), j \in 1 .. piece_count(b2) :
                   b.pieces[i] = b2.pieces[j]
                     => PieceBytes(b2, b2.pieces[j]) = PieceBytes(b, b.pieces[i])]_vars

\* An insert has just appended to add storage that already held bytes which
\* a piece of the document still designates, and the storage grew past
\* its first capacity.
C22_Witness ==
    /\ Live
    /\ last.op = "insert_text"
    /\ ret = 1
    /\ Buf.add_capacity > INITIAL_ADD_CAPACITY
    /\ add_length(Buf) = MaxStoreAdd
    /\ \E i, j \in 1 .. piece_count(Buf) :
          /\ i # j
          /\ Buf.pieces[i].source = SOURCE_ADD
          /\ Buf.pieces[j].source = SOURCE_ADD
          /\ PieceBytes(Buf, Buf.pieces[i]) # PieceBytes(Buf, Buf.pieces[j])

\* ------------------------------------------------------------------------
\* SpecLine: delete_line on documents of one to three lines, the cursor put
\* on every line by moves and kept in step by the cursor edits.
\* ------------------------------------------------------------------------
\* "line1\nline2\nline3" with two-byte lines
LineExample == <<"a", "a", NL, "b", "b", NL, "c", "c">>
LineTexts == {<<>>, <<"a", NL>>, LineExample}

NextLine ==
    \/ \E text \in LineTexts : editor_load_text(text)
    \/ \E position \in 0 .. DocLen : set_cursor_position(position)
    \/ motion_j
    \/ motion_k
    \/ \E c \in {NL} : EdRoom(<<c>>) /\ insert_char(c)
    \/ delete_line

SpecLine == Init /\ [][NextLine]_vars

\* The cursor's line and column are those of its position in the text.
CursorInStep(text, cur) ==
    /\ cur.position <= Len(text)
    /\ cur.line = CountNL(Slice(text, 0, cur.position))
    /\ cur.column = cur.position - LineStartOffset(text, cur.line)

\* Offset just past line l with its trailing newline.
LineNextOffset(text, l) ==
    IF LineEndOffset(text, l) < Len(text) THEN LineEndOffset(text, l) + 1 ELSE Len(text)

NextNoBuf ==
    \/ editor_init
    \/ \E text \in {<<"a", NL>>} : editor_load_text(text)
    \/ editor_destroy
    \/ get_buffer_length
    \/ get_line_count
    \/ get_all_text
    \/ \E line_number \in 0 .. 1 : get_line(line_number)
    \/ EdRoom(<<NL>>) /\ insert_text(0, <<NL>>)
    \/ delete_text(0, 1)
    \/ \E position \in 0 .. 2 : set_cursor_position(position)
    \/ motion_h
    \/ motion_l
    \/ motion_j
    \/ motion_k
    \/ motion_w
    \/ motion_b
    \/ motion_e
    \/ motion_line_start
    \/ motion_line_end
    \/ motion_file_start
    \/ motion_file_end
    \/ \E c \in {"a"} : EdRoom(<<c>>) /\ insert_char(c)
    \/ \E str \in {<<NL>>} : EdRoom(str) /\ insert_string(str)
    \/ delete_char_before
    \/ delete_char_after
    \/ delete_line

SpecNoBuf == Init /\ [][NextNoBuf]_vars

Queries == {"get_buffer_length", "get_line_count", "get_all_text", "get_line"}
Edits == {"insert_text", "delete_text"}
CursorEdits == {"insert_char", "insert_string", "delete_char_before", "delete_char_after",
                "delete_line"}

\* C24: while no buffer exists (before editor_init / editor_load_text, or
\* after editor_destroy) the document queries and the edit operations
\* return 0 / null, and every motion, set_cursor_position and cursor edit
\* leaves the cursor (position, line, column, preferred_column) unchanged.
C24_NoBufferNoOp ==
    [][(g_buffer = NULL /\ last'.op \in Queries \cup Edits \cup CursorEdits \cup Motions
                                        \cup {"set_cursor_position"})
       => /\ g_buffer' = NULL
          /\ (last'.op \in Queries \cup Edits \cup CursorEdits
                => ret' = 0 /\ out' = NullText)
          /\ (last'.op \in Motions \cup CursorEdits \cup {"set_cursor_position"}
                => g_cursor' = g_cursor)]_vars

\* ------------------------------------------------------------------------
\* SpecMode: mode changes between cursor moves and insertions.  set_mode
\* takes any int: the five modes and one value that names none.
\* ------------------------------------------------------------------------
ModeInputs == MODE_NORMAL .. MODE_SEARCH + 1

NextMode ==
    \/ editor_init
    \/ \E text \in EdInitTexts : editor_load_text(text)
    \/ \E position \in 0 .. DocLen + 1 : set_cursor_position(position)
    \/ \E c \in {"a"} : EdRoom(<<c>>) /\ insert_char(c)
    \/ \E mode \in ModeInputs : set_mode(mode)

SpecMode == Init /\ [][NextMode]_vars

\* C15: set_mode(VISUAL) sets the anchor to the cursor position and
\* has_selection to true; set_mode(NORMAL) sets has_selection to false; any
\* other mode leaves anchor and has_selection unchanged; no set_mode call
\* changes the cursor or the document.
C15_SetModeSelection ==
    [][last'.op = "set_mode"
       => (/\ (last'.a = MODE_VISUAL
                 => g_selection_start' = g_cursor.position /\ g_has_selection')
           /\ (last'.a = MODE_NORMAL => ~g_has_selection')
           /\ (last'.a \notin {MODE_VISUAL, MODE_NORMAL}
                 => /\ g_selection_start' = g_selection_start
                    /\ g_has_selection' = g_has_selection)
           /\ g_cursor' = g_cursor
           /\ g_buffer' = g_buffer)]_vars

\* INSERT was entered with a selection whose anchor is neither 0 nor the
\* cursor position: the selection is still there.
C15_Witness ==
    /\ last.op = "set_mode"
    /\ last.a = MODE_INSERT
    /\ g_mode = MODE_INSERT
    /\ g_has_selection
    /\ g_selection_start > 0
    /\ g_selection_start # g_cursor.position

\* C25: in every reachable state, after any sequence of set_mode calls with
\* arbitrary int arguments, the stored mode is one of NORMAL (0), INSERT (1),
\* VISUAL (2), COMMAND (3), SEARCH (4).
C25_ModeIsValid ==
    g_mode \in {MODE_NORMAL, MODE_INSERT, MODE_VISUAL, MODE_COMMAND, MODE_SEARCH}

\* ------------------------------------------------------------------------
\* SpecCur: the cursor edits at every cursor position, with enough inserted
\* bytes for several pieces.
\* ------------------------------------------------------------------------
CurTexts == {<<"a">>, <<"b", NL>>}

NextCur ==
    \/ editor_init
    \/ \E text \in StoreInitTexts : editor_load_text(text)
    \/ \E position \in 0 .. DocLen : set_cursor_position(position)
    \/ \E str \in CurTexts : StoreRoom(str) /\ insert_string(str)
    \/ delete_char_before
    \/ delete_char_after

SpecCur == Init /\ [][NextCur]_vars

\* C26: with the cursor at position p <= length, delete_char_before removes
\* exactly the byte at p - 1 and sets position to p - 1 if p > 0, else
\* returns 0 and changes nothing; delete_char_after removes exactly the byte
\* at p and leaves position, line and column unchanged if p < length, else
\* returns 0 and changes nothing; insert_string(s) with non-empty s yields
\* old[:p] + s + old[p:] and position p + len(s).
C26_CursorEdits ==
    [][(Live /\ g_cursor.position <= Buf.total_length)
       => LET text == buffer_get_all(Buf)
              p == g_cursor.position
              text2 == buffer_get_all(g_buffer'[1])
              s == last'.text
          IN /\ (last'.op = "delete_char_before"
                   => IF p > 0
                      THEN /\ text2 = Slice(text, 0, p - 1) \o Slice(text, p, Len(text))
                           /\ g_cursor'.position = p - 1
                      ELSE ret' = 0 /\ text2 = text /\ g_cursor' = g_cursor)
             /\ (last'.op = "delete_char_after"
                   => IF p < Len(text)
                      THEN /\ text2 = Slice(text, 0, p) \o Slice(text, p + 1, Len(text))
                           /\ g_cursor' = g_cursor
                      ELSE ret' = 0 /\ text2 = text /\ g_cursor' = g_cursor)
             /\ (last'.op = "insert_string" /\ s # NullText /\ s # <<>>
                   => /\ ~hung'
                      /\ text2 = Slice(text, 0, p) \o s \o Slice(text, p, Len(text))
                      /\ g_cursor'.position = p + Len(s))]_vars

\* ------------------------------------------------------------------------
\* SpecWord: word motions from every position of "hello world" and of a
\* document whose words are separated by a tab and a newline.
\* ------------------------------------------------------------------------
HelloWorld == <<"h", "e", "l", "l", "o", SP, "w", "o", "r", "l", "d">>
WordTexts == {<<>>, HelloWorld, <<"a", TAB, "b", NL, SP, "c", SP>>}

NextWord ==
    \/ \E text \in WordTexts : editor_load_text(text)
    \/ \E position \in 0 .. DocLen : set_cursor_position(position)
    \/ motion_w
    \/ motion_b
    \/ motion_h
    \/ motion_l
    \/ motion_j
    \/ motion_k
    \/ motion_line_end

SpecWord == Init /\ [][NextWord]_vars

Whitespace == {SP, TAB, NL}

\* First offset >= p that holds a whitespace byte, or the length.
SkipNonWhitespace(text, p) ==
    SetMin({i \in p .. Len(text) : i = Len(text) \/ text[i + 1] \in Whitespace})

\* First offset >= p that holds a non-whitespace byte, or the length.
SkipWhitespace(text, p) ==
    SetMin({i \in p .. Len(text) : i = Len(text) \/ text[i + 1] \notin Whitespace})

\* C27: from every position p <= length motion_w sets position to the
\* result of skipping forward from p over non-whitespace bytes and then over
\* whitespace bytes (space, tab, newline), stopping at length, and sets
\* preferred_column to the new column; on "hello world" from 0 two motion_w
\* give 6 then 11, and a following motion_b gives 6.
C27_MotionW ==
    [][(Live /\ g_cursor.position <= Buf.total_length)
       => LET text == buffer_get_all(Buf)
              p == g_cursor.position
          IN /\ (last'.op = "motion_w"
                   => /\ g_cursor'.position = SkipWhitespace(text, SkipNonWhitespace(text, p))
                      /\ CursorInStep(text, g_cursor')
                      /\ g_cursor'.preferred_column = g_cursor'.column
                      /\ g_buffer'[1].pieces = Buf.pieces)
             /\ (last'.op = "motion_w" /\ text = HelloWorld /\ p = 0
                   => g_cursor'.position = 6)
             /\ (last'.op = "motion_w" /\ text = HelloWorld /\ p = 6
                   => g_cursor'.position = 11)
             /\ (last'.op = "motion_b" /\ text = HelloWorld /\ p = 11
                   => g_cursor'.position = 6)]_vars

\* The second motion_w of the example: from the start of "world" the cursor
\* has stopped at the length of the document.
C27_Witness ==
    /\ Live
    /\ last.op = "motion_w"
    /\ buffer_get_all(Buf) = HelloWorld
    /\ g_cursor.position = 11
    /\ g_cursor.column = 11
    /\ g_cursor.preferred_column = 11

\* ------------------------------------------------------------------------
\* SpecSel: mode changes between loads, cursor moves and the deletions at
\* the cursor.
\* ------------------------------------------------------------------------
NextSel ==
    \/ editor_init
    \/ \E text \in EdInitTexts : editor_load_text(text)
    \/ \E position \in 0 .. DocLen : set_cursor_position(position)
    \/ delete_char_before
    \/ delete_char_after
    \/ delete_line
    \/ \E mode \in ModeInputs : set_mode(mode)

SpecSel == Init /\ [][NextSel]_vars

\* C28: in every reachable state where has_selection is true,
\* get_selection_start and get_selection_end are within [0, buffer length]:
\* the anchor never points past the end of the document, also after
\* deletions made while a selection exists and after editor_load_text.
C28_SelectionWithinDocument ==
    (Live /\ g_has_selection)
      => /\ 0 <= get_selection_start
         /\ get_selection_start <= Buf.total_length
         /\ get_selection_end <= Buf.total_length

\* C29: in every reachable state mode = NORMAL implies has_selection =
\* false, across any interleaving of editor_init, editor_load_text, set_mode
\* and edits.
C29_NormalHasNoSelection ==
    g_mode = MODE_NORMAL => ~g_has_selection

\* Back in NORMAL after a selection that was anchored past the start of the
\* document and outlived a load.
C29_Witness ==
    /\ Live
    /\ g_mode = MODE_NORMAL
    /\ last.op = "set_mode"
    /\ last.a = MODE_NORMAL
    /\ g_selection_start > Buf.total_length
    /\ ~g_has_selection

\* ------------------------------------------------------------------------
\* SpecIndex: newlines inserted and deleted between line queries, so that
\* the line count grows, shrinks and grows again with and without a rebuild
\* in between.
\* ------------------------------------------------------------------------
IndexTexts == {<<>>, <<NL, NL>>}

NextIndex ==
    \/ \E text \in IndexTexts : editor_load_text(text)
    \/ \E position \in {0, DocLen} : AddRoom(<<NL>>) /\ insert_text(position, <<NL>>)
    \/ \E length \in 1 .. 2 : length <= DocLen /\ delete_text(0, length)
    \/ get_line_count
    \/ get_line(0)

SpecIndex == Init /\ [][NextIndex]_vars

\* C30: over any sequence of edits and line queries every rebuild of the
\* line cache writes only within the allocated line_starts array: the
\* allocation (line count at the last reallocation + INITIAL_LINE_CAPACITY,
\* reallocated only when the new line count exceeds the cached one) is at
\* least the number of line starts written, also when the line count
\* shrinks and grows again.
C30_LineStartsWithinAllocation ==
    Live => /\ Len(Buf.line_starts) <= Buf.line_alloc
            /\ (~Buf.lines_dirty => Buf.line_count + INITIAL_LINE_CAPACITY <= Buf.line_alloc)

\* After inserts and deletes, an index of several lines written by a rebuild
\* that did not reallocate: the array still has the size it got for a
\* longer index.
C30_Witness ==
    /\ Live
    /\ last.op = "get_line"
    /\ ~Buf.lines_dirty
    /\ Len(Buf.line_starts) >= 2
    /\ Buf.line_alloc > Len(Buf.line_starts) + INITIAL_LINE_CAPACITY
    /\ add_length(Buf) >= 1
    /\ Buf.total_length < Len(Buf.original) + add_length(Buf)

\* C31: whenever delete_line succeeds on a document with line_count > 1,
\* line_count decreases by exactly one, also when the cursor is on the last
\* line, which has no trailing newline of its own.
C31_DeleteLineCount ==
    [][(/\ last'.op = "delete_line"
        /\ ret' = 1
        /\ Live
        /\ CursorInStep(buffer_get_all(Buf), g_cursor)
        /\ CountNL(buffer_get_all(Buf)) + 1 > 1)
       => /\ CountNL(buffer_get_all(g_buffer'[1])) = CountNL(buffer_get_all(Buf)) - 1
          /\ rebuild_line_cache(g_buffer'[1]).line_count
               = rebuild_line_cache(Buf).line_count - 1]_vars

====
